---- MODULE Spec2Model ----
(***************************************************************************)
(* Model of the election-report verifier: the two vote parsers             *)
(* (backend/table_parser.py, backend/vote_parser.py), the reconciliation   *)
(* of their results (compare_vote_results) and the concurrent batch        *)
(* orchestrator (process_file / parse_county in backend/pdf_extractor.py). *)
(*                                                                         *)
(* Strings are sequences of one-character strings, so that strip(), int()  *)
(* and the regular expression of parse_candidate_votes are computed, not   *)
(* assumed.  Python's None is the empty tuple, a present value v is <<v>>. *)
(***************************************************************************)
EXTENDS Integers, Sequences, FiniteSets, TLC

VARIABLES
    \* ---- inputs and results of the pure functions
    kind,             \* which function the state exercises
    table_data,       \* argument of parse_table_votes
    text,             \* argument of parse_candidate_votes
    text_votes,       \* first argument of compare_vote_results
    ocr_votes,        \* second argument of compare_vote_results
    parsed,           \* what the parser returned: [raised, votes]
    report,           \* what compare_vote_results returned
    phase,            \* "input" before the call, "done" after it
    \* ---- the orchestrator
    disk,             \* names of the files in data/pdfs
    problems,         \* ids with a file in data/problems
    processed_files,  \* the registry shared by the workers of one run
    pc,               \* position of each work item's process_file call
    pdf_file,         \* each call's local variable pdf_file
    content,          \* each call's extraction result (all_match), or None
    future,           \* how each submitted task ended
    mainpc,           \* position of parse_county
    collected,        \* futures parse_county's loop has taken
    run,              \* number of parse_county runs started
    poppler,          \* whether pdftoppm is installed
    docs,             \* the document the remote serves under each file name
    \* ---- history (what happened; read by no action's guard)
    hist

pureVars == <<kind, table_data, text, text_votes, ocr_votes, parsed, report, phase>>
orchVars == <<disk, problems, processed_files, pc, pdf_file, content, future,
              mainpc, collected, run, poppler, docs, hist>>
vars == <<pureVars, orchVars>>

-----------------------------------------------------------------------------
(* Bounds of the model *)

MaxRows == 2      \* data rows of a table grid
MaxSegs == 4      \* segments a text is concatenated from
MaxLen == 2       \* records of a VoteSet given to compare_vote_results
MaxVote == 1      \* largest vote count given to compare_vote_results
MaxRuns == 2      \* parse_county runs over the same storage

-----------------------------------------------------------------------------
(* Characters and Python's string helpers *)

None == <<>>
Some(v) == <<v>>

\* a cell pdfplumber leaves empty is None
NoneCell == <<"<None>">>

Upper == {"A", "B", "C"}
Whitespace == {" "}
Digits == {"0", "1", "2", "3", "4", "5", "6", "7", "8", "9"}
NameClass == Upper \cup Whitespace \cup {"-", "."}

DigitVal(c) ==
    CASE c = "0" -> 0 [] c = "1" -> 1 [] c = "2" -> 2 [] c = "3" -> 3
      [] c = "4" -> 4 [] c = "5" -> 5 [] c = "6" -> 6 [] c = "7" -> 7
      [] c = "8" -> 8 [] c = "9" -> 9

RECURSIVE LStrip(_)
LStrip(s) == IF s # <<>> /\ Head(s) \in Whitespace THEN LStrip(Tail(s)) ELSE s

RECURSIVE RStrip(_)
RStrip(s) ==
    IF s # <<>> /\ s[Len(s)] \in Whitespace
    THEN RStrip(SubSeq(s, 1, Len(s) - 1))
    ELSE s

\* str.strip()
Strip(s) == RStrip(LStrip(s))

RECURSIVE DecimalValue(_)
DecimalValue(ds) ==
    IF ds = <<>> THEN 0
    ELSE 10 * DecimalValue(SubSeq(ds, 1, Len(ds) - 1)) + DigitVal(ds[Len(ds)])

IsDigit(c) == c \in Digits

\* int(s): surrounding whitespace, one optional sign, digits with single
\* underscores between them; ok = FALSE is ValueError
PyInt(s) ==
    LET t == Strip(s)
        signed == t # <<>> /\ t[1] \in {"+", "-"}
        body == IF signed THEN Tail(t) ELSE t
        ok == /\ body # <<>>
              /\ body[1] \in Digits
              /\ body[Len(body)] \in Digits
              /\ \A k \in 1..Len(body) : body[k] \in Digits \cup {"_"}
              /\ \A k \in 1..(Len(body) - 1) : ~(body[k] = "_" /\ body[k + 1] = "_")
        mag == DecimalValue(SelectSeq(body, IsDigit))
    IN  [ok |-> ok,
         val |-> IF ~ok THEN 0 ELSE IF signed /\ t[1] = "-" THEN 0 - mag ELSE mag]

-----------------------------------------------------------------------------
(* The Candidate Registry (constants.CANDIDATE_NAMES) *)

NameAB == <<"A", "B">>
NameBC == <<"B", " ", "C">>
NameCA == <<"C", "A">>          \* looks like a name, is not in the registry

CANDIDATE_NAMES == <<NameAB, NameBC>>

InRegistry(name) == \E i \in DOMAIN CANDIDATE_NAMES : CANDIDATE_NAMES[i] = name

-----------------------------------------------------------------------------
(* table_parser.parse_table_votes *)

Truthy(cell) == cell # NoneCell /\ cell # <<>>

\* variant of TableRow without the registry membership test
TableRowNoCheck(row) ==
    IF Len(row) >= 3 /\ Truthy(row[2]) /\ Truthy(row[3])
    THEN LET v == PyInt(row[3]) IN
         IF v.ok THEN <<[name |-> Strip(row[2]), votes |-> v.val]>> ELSE <<>>
    ELSE <<>>

\* one iteration of the loop over table_data[1:]; Python's row[1], row[2]
\* are row[2], row[3] here
TableRow(row) ==
    IF Len(row) >= 3 /\ Truthy(row[2]) /\ Truthy(row[3])
    THEN LET v == PyInt(row[3]) IN
         IF v.ok
         THEN IF InRegistry(Strip(row[2]))
              THEN <<[name |-> Strip(row[2]), votes |-> v.val]>>
              ELSE <<>>
         ELSE <<>>                      \* except ValueError: continue
    ELSE <<>>

RECURSIVE TableRows(_, _)
TableRows(t, i) ==
    IF i > Len(t) THEN <<>> ELSE TableRow(t[i]) \o TableRows(t, i + 1)

parse_table_votes(t) ==
    IF t = <<>> \/ Len(t) < 2
    THEN [raised |-> FALSE, votes |-> <<>>]
    ELSE [raised |-> FALSE, votes |-> TableRows(t, 2)]

-----------------------------------------------------------------------------
(* vote_parser.parse_candidate_votes *)

RECURSIVE ClassEnd(_, _)
\* first position >= k that holds no character of the name class
ClassEnd(s, k) ==
    IF k <= Len(s) /\ s[k] \in NameClass THEN ClassEnd(s, k + 1) ELSE k

RECURSIVE DigitsEnd(_, _)
DigitsEnd(s, k) ==
    IF k <= Len(s) /\ s[k] \in Digits THEN DigitsEnd(s, k + 1) ELSE k

\* ([A-Z..][A-Z..\s\-\.]+)\s+(\d+) matches at i: the greedy name group runs to
\* the end of the class run and backtracks one whitespace, which must be
\* followed by a digit
MatchAt(s, i) ==
    LET p == ClassEnd(s, i + 1) IN
    /\ s[i] \in Upper
    /\ p >= i + 3
    /\ p <= Len(s)
    /\ s[p] \in Digits
    /\ s[p - 1] \in Whitespace

RECURSIVE FindAll(_, _)
\* re.findall: the non-overlapping matches from position i on, left to right
FindAll(s, i) ==
    IF i > Len(s) THEN <<>>
    ELSE IF MatchAt(s, i)
         THEN LET p == ClassEnd(s, i + 1)
                  q == DigitsEnd(s, p)
              IN  <<[name |-> SubSeq(s, i, p - 2), votes |-> SubSeq(s, p, q - 1)]>>
                  \o FindAll(s, q)
         ELSE FindAll(s, i + 1)

\* one iteration of the loop over the matches
TextMatch(m) ==
    LET v == PyInt(m.votes) IN
    IF InRegistry(Strip(m.name)) /\ v.val >= 0
    THEN <<[name |-> Strip(m.name), votes |-> v.val]>>
    ELSE <<>>

RECURSIVE TextMatches(_, _)
TextMatches(ms, i) ==
    IF i > Len(ms) THEN <<>> ELSE TextMatch(ms[i]) \o TextMatches(ms, i + 1)

parse_candidate_votes(s) ==
    LET ms == FindAll(s, 1) IN
    \* int(votes) is outside any try: a ValueError would leave the function
    [raised |-> \E i \in DOMAIN ms : ~PyInt(ms[i].votes).ok,
     votes |-> TextMatches(ms, 1)]

-----------------------------------------------------------------------------
(* vote_parser.compare_vote_results *)

\* {v["name"]: v["votes"] for v in votes}: the last record of a name wins
DictOf(votes) ==
    [n \in {votes[i].name : i \in DOMAIN votes} |->
        LET last == CHOOSE i \in DOMAIN votes :
                        /\ votes[i].name = n
                        /\ \A j \in DOMAIN votes : votes[j].name = n => j <= i
        IN  votes[last].votes]

\* dict.get(name)
Get(d, n) == IF n \in DOMAIN d THEN Some(d[n]) ELSE None

\* the keys of the dict in insertion order: each name at its first record
RECURSIVE KeysInOrder(_, _)
KeysInOrder(votes, i) ==
    IF i > Len(votes) THEN <<>>
    ELSE IF \E j \in 1..(i - 1) : votes[j].name = votes[i].name
         THEN KeysInOrder(votes, i + 1)
         ELSE <<votes[i].name>> \o KeysInOrder(votes, i + 1)

\* variant of FirstPassEntry that reads a missing count as 0 (dict.get(name, 0))
FirstPassEntryZero(td, od, name) ==
    LET t == IF name \in DOMAIN td THEN Some(td[name]) ELSE Some(0)
        o == IF name \in DOMAIN od THEN Some(od[name]) ELSE Some(0)
    IN  IF t # o
        THEN <<[name |-> name, text_votes |-> Get(td, name), ocr_votes |-> Get(od, name)]>>
        ELSE <<>>

\* the body of "for name in CANDIDATE_NAMES"
FirstPassEntry(td, od, name) ==
    LET t == Get(td, name)
        o == Get(od, name)
    IN  IF t = None \/ o = None
        THEN <<[name |-> name, text_votes |-> t, ocr_votes |-> o]>>
        ELSE IF t # o
             THEN <<[name |-> name, text_votes |-> t, ocr_votes |-> o]>>
             ELSE <<>>

RECURSIVE FirstPass(_, _, _)
FirstPass(td, od, i) ==
    IF i > Len(CANDIDATE_NAMES) THEN <<>>
    ELSE FirstPassEntry(td, od, CANDIDATE_NAMES[i]) \o FirstPass(td, od, i + 1)

\* variant of SecondPassEntry without the "not in text_dict" test
SecondPassEntryAll(td, od, name) ==
    <<[name |-> name, text_votes |-> Get(td, name), ocr_votes |-> Some(od[name])]>>

\* the body of "for name, votes in ocr_dict.items()"
SecondPassEntry(td, od, name) ==
    IF name \notin DOMAIN td
    THEN <<[name |-> name, text_votes |-> None, ocr_votes |-> Some(od[name])]>>
    ELSE <<>>

RECURSIVE SecondPass(_, _, _, _)
SecondPass(td, od, keys, i) ==
    IF i > Len(keys) THEN <<>>
    ELSE SecondPassEntry(td, od, keys[i]) \o SecondPass(td, od, keys, i + 1)

compare_vote_results(tv, ov) ==
    LET td == DictOf(tv)
        od == DictOf(ov)
        differences == FirstPass(td, od, 1) \o SecondPass(td, od, KeysInOrder(ov, 1), 1)
    IN  \* all_match is set to False exactly where a difference is appended
        [all_match |-> differences = <<>>, differences |-> differences]

-----------------------------------------------------------------------------
(* The pure-function variables at rest *)

NoReport == [all_match |-> TRUE, differences |-> <<>>]
NoParse == [raised |-> FALSE, votes |-> <<>>]

PureIdle ==
    /\ kind = "none"
    /\ table_data = <<>>
    /\ text = <<>>
    /\ text_votes = <<>>
    /\ ocr_votes = <<>>
    /\ parsed = NoParse
    /\ report = NoReport
    /\ phase = "input"

-----------------------------------------------------------------------------
(* Documents, and pdf_extractor.extract_pdf_content *)

TargetPage == 2     \* page_number=2 in process_file's call
MaxWorkers == 20    \* ThreadPoolExecutor(max_workers=20)

Chars5 == <<"5">>
Chars7 == <<"7">>

GoodTable ==
    <<<<<<"x">>, <<"x">>, <<"x">>>>,
      <<<<"1">>, NameAB, Chars5>>,
      <<<<"2">>, NameBC, Chars7>>>>

GoodText == NameAB \o <<" ">> \o Chars5 \o <<" ">> \o NameBC \o <<" ">> \o Chars7
BadText == NameAB \o <<" ">> \o Chars5 \o <<" ">> \o NameBC \o <<" ">> \o <<"1">>

\* what pdfplumber and pdf2image make of a file: whether it opens as a PDF, its
\* page count, the target page's first table and text, whether the page renders
DocMatch == [pdf |-> TRUE, pages |-> 2, table |-> GoodTable, text |-> GoodText, image |-> TRUE]
DocMismatch == [pdf |-> TRUE, pages |-> 2, table |-> GoodTable, text |-> BadText, image |-> TRUE]
DocShort == [pdf |-> TRUE, pages |-> 1, table |-> <<>>, text |-> <<>>, image |-> TRUE]
DocJunk == [pdf |-> FALSE, pages |-> 0, table |-> <<>>, text |-> <<>>, image |-> FALSE]
DocNoImage == [pdf |-> TRUE, pages |-> 2, table |-> GoodTable, text |-> BadText, image |-> FALSE]

DocSet == {DocMatch, DocMismatch, DocShort, DocJunk, DocNoImage}

\* raise is "none", "Exception" or "SystemExit"; whole is FALSE when the file
\* is read while another worker has it open for writing (truncated)
extract_pdf_content(doc, whole, tool) ==
    IF ~tool THEN [raise |-> "SystemExit", all_match |-> FALSE]
    ELSE IF ~whole \/ ~doc.pdf THEN [raise |-> "Exception", all_match |-> FALSE]
    ELSE IF TargetPage > doc.pages THEN [raise |-> "Exception", all_match |-> FALSE]
    ELSE LET ocr == parse_candidate_votes(doc.text)
             tab == parse_table_votes(doc.table)
         IN  IF ocr.raised \/ tab.raised \/ ~doc.image
             THEN [raise |-> "Exception", all_match |-> FALSE]
             ELSE [raise |-> "none",
                   all_match |-> compare_vote_results(tab.votes, ocr.votes).all_match]

-----------------------------------------------------------------------------
(* The orchestrator: pdf_extractor.process_file and parse_county *)

NoFile == ""

\* files_to_process: (id, f) with the name the url of f[0] ends in, or no f
WorkList ==
    <<[id |-> "p1", file |-> "F1"],
      [id |-> "p2", file |-> "F1"],
      [id |-> "p3", file |-> "F1"],
      [id |-> "p4", file |-> NoFile]>>

Items == DOMAIN WorkList
Files == {WorkList[i].file : i \in Items} \ {NoFile}

\* the Response object requests.request returns to call i
Response(i) == WorkList[i].id \o "-response"

FreshLocals ==
    /\ pdf_file' = [i \in Items |-> ""]
    /\ content' = [i \in Items |-> None]

H(field, value) == [hist EXCEPT ![field] = value]
HI(field, i, value) == [hist EXCEPT ![field][i] = value]

Init ==
    /\ PureIdle
    /\ disk \in SUBSET Files
    /\ problems = {}
    /\ processed_files = {}
    /\ pc = [i \in Items |-> "idle"]
    /\ pdf_file = [i \in Items |-> ""]
    /\ content = [i \in Items |-> None]
    /\ future = [i \in Items |-> "none"]
    /\ mainpc = "idle"
    /\ collected = {}
    /\ run = 0
    /\ poppler \in BOOLEAN
    /\ docs \in [Files -> DocSet]
    /\ hist = [outcome |-> [i \in Items |-> "none"],
               late |-> [i \in Items |-> FALSE],
               sawInRegistry |-> [i \in Items |-> FALSE],
               sawOnDisk |-> [i \in Items |-> FALSE],
               requested |-> [i \in Items |-> FALSE],
               written |-> {},
               doneOK |-> {},
               doneByDownload |-> {},
               extractedOK |-> disk,
               failedExtract |-> {},
               diskAtStart |-> disk,
               submitted |-> FALSE]

\* os.listdir("data/pdfs"), the index request and the submission of every item
ParseCounty ==
    /\ mainpc \in {"idle", "returned", "raised"}
    /\ run < MaxRuns
    /\ run' = run + 1
    /\ processed_files' = disk
    /\ pc' = [i \in Items |-> "queued"]
    /\ future' = [i \in Items |-> "pending"]
    /\ collected' = {}
    /\ mainpc' = "running"
    /\ FreshLocals
    /\ hist' = [hist EXCEPT !.outcome = [i \in Items |-> "none"],
                            !.late = [i \in Items |-> FALSE],
                            !.sawInRegistry = [i \in Items |-> FALSE],
                            !.sawOnDisk = [i \in Items |-> FALSE],
                            !.requested = [i \in Items |-> FALSE],
                            !.written = {},
                            !.doneOK = {},
                            !.doneByDownload = {},
                            !.diskAtStart = disk,
                            !.submitted = TRUE]
    /\ UNCHANGED <<pureVars, disk, problems, poppler, docs>>

\* the listing or the index request raises: nothing is submitted
ParseCountyFails ==
    /\ mainpc \in {"idle", "returned", "raised"}
    /\ run < MaxRuns
    /\ run' = run + 1
    /\ mainpc' = "raised"
    /\ pc' = [i \in Items |-> "idle"]
    /\ future' = [i \in Items |-> "none"]
    /\ collected' = {}
    /\ FreshLocals
    /\ hist' = [hist EXCEPT !.outcome = [i \in Items |-> "none"],
                            !.late = [i \in Items |-> FALSE],
                            !.sawInRegistry = [i \in Items |-> FALSE],
                            !.sawOnDisk = [i \in Items |-> FALSE],
                            !.requested = [i \in Items |-> FALSE],
                            !.written = {},
                            !.doneOK = {},
                            !.doneByDownload = {},
                            !.diskAtStart = disk,
                            !.submitted = FALSE]
    /\ UNCHANGED <<pureVars, disk, problems, processed_files, poppler, docs>>

Running == {i \in Items : pc[i] \notin {"idle", "queued", "done"}}

InRegistryOfRun(name) == name \in processed_files

\* process_file up to the registry check
Start(i) ==
    /\ mainpc \in {"running", "exiting"}
    /\ pc[i] = "queued"
    /\ Cardinality(Running) < MaxWorkers
    /\ IF WorkList[i].file = NoFile
       THEN /\ pc' = [pc EXCEPT ![i] = "done"]
            /\ future' = [future EXCEPT ![i] = "returned"]
            /\ hist' = HI("outcome", i, "nofile")
            /\ UNCHANGED pdf_file
       ELSE IF InRegistryOfRun(WorkList[i].file)
       THEN /\ pc' = [pc EXCEPT ![i] = "done"]
            /\ future' = [future EXCEPT ![i] = "returned"]
            /\ hist' = [hist EXCEPT !.outcome[i] = "skipped",
                                    !.late[i] = WorkList[i].file \in hist.doneOK,
                                    !.sawInRegistry[i] = WorkList[i].file \in processed_files]
            /\ UNCHANGED pdf_file
       ELSE /\ pc' = [pc EXCEPT ![i] = "exists"]
            /\ pdf_file' = [pdf_file EXCEPT ![i] = WorkList[i].file]
            /\ hist' = [hist EXCEPT !.late[i] = WorkList[i].file \in hist.doneOK,
                                    !.sawInRegistry[i] = WorkList[i].file \in processed_files]
            /\ UNCHANGED future
    /\ UNCHANGED <<pureVars, disk, problems, processed_files, content, mainpc,
                   collected, run, poppler, docs>>


\* variant of PathExists: the download is not guarded by the file's presence
PathExistsNever(name) == FALSE

\* os.path.exists(saved_filename)
PathExists(name) == name \in disk

\* no worker is between open(saved_filename, "wb") and the end of its write
Whole(name) == \A j \in Items : ~(pc[j] = "writing" /\ WorkList[j].file = name)

\* the existence check that decides whether to download
Exists(i) ==
    /\ pc[i] = "exists"
    /\ pc' = [pc EXCEPT ![i] = IF PathExists(WorkList[i].file) THEN "extract" ELSE "request"]
    /\ hist' = HI("sawOnDisk", i, WorkList[i].file \in disk)
    /\ UNCHANGED <<pureVars, disk, problems, processed_files, pdf_file, content,
                   future, mainpc, collected, run, poppler, docs>>

\* requests.request returns: pdf_file is rebound to the Response
Request(i) ==
    /\ pc[i] = "request"
    /\ pc' = [pc EXCEPT ![i] = "open"]
    /\ pdf_file' = [pdf_file EXCEPT ![i] = Response(i)]
    /\ hist' = HI("requested", i, TRUE)
    /\ UNCHANGED <<pureVars, disk, problems, processed_files, content, future,
                   mainpc, collected, run, poppler, docs>>

\* requests.request raises: the exception leaves process_file
RequestFails(i) ==
    /\ pc[i] = "request"
    /\ pc' = [pc EXCEPT ![i] = "done"]
    /\ future' = [future EXCEPT ![i] = "Exception"]
    /\ pdf_file' = [pdf_file EXCEPT ![i] = ""]
    /\ hist' = [hist EXCEPT !.requested[i] = TRUE, !.outcome[i] = "dlerror"]
    /\ UNCHANGED <<pureVars, disk, problems, processed_files, content, mainpc,
                   collected, run, poppler, docs>>

\* open(saved_filename, "wb"): the file exists, empty
Open(i) ==
    /\ pc[i] = "open"
    /\ pc' = [pc EXCEPT ![i] = "writing"]
    /\ disk' = disk \cup {WorkList[i].file}
    /\ UNCHANGED <<pureVars, problems, processed_files, pdf_file, content, future,
                   mainpc, collected, run, poppler, docs, hist>>

\* f.write(pdf_file.content) and the end of the with block
Write(i) ==
    /\ pc[i] = "writing"
    /\ pc' = [pc EXCEPT ![i] = "extract"]
    /\ UNCHANGED <<pureVars, disk, problems, processed_files, pdf_file, content,
                   future, mainpc, collected, run, poppler, docs, hist>>

\* extract_pdf_content and is_matching, inside the try
Extract(i) ==
    /\ pc[i] = "extract"
    /\ LET f == WorkList[i].file
           r == extract_pdf_content(docs[f], Whole(f), poppler)
       IN  CASE r.raise = "SystemExit" ->
                  \* not an Exception: it leaves process_file
                  /\ pc' = [pc EXCEPT ![i] = "done"]
                  /\ future' = [future EXCEPT ![i] = "SystemExit"]
                  /\ pdf_file' = [pdf_file EXCEPT ![i] = ""]
                  /\ hist' = HI("outcome", i, "exit")
                  /\ UNCHANGED content
             [] r.raise = "Exception" ->
                  \* except Exception: print
                  /\ pc' = [pc EXCEPT ![i] = "done"]
                  /\ future' = [future EXCEPT ![i] = "returned"]
                  /\ pdf_file' = [pdf_file EXCEPT ![i] = ""]
                  /\ hist' = [hist EXCEPT !.outcome[i] = "error",
                                          !.failedExtract = @ \cup {f}]
                  /\ UNCHANGED content
             [] OTHER ->
                  /\ pc' = [pc EXCEPT ![i] = "persist"]
                  /\ content' = [content EXCEPT ![i] = Some(r.all_match)]
                  /\ hist' = [hist EXCEPT
                                 !.outcome[i] = IF r.all_match THEN "match" ELSE "mismatch",
                                 !.extractedOK = @ \cup {f}]
                  /\ UNCHANGED <<future, pdf_file>>
    /\ UNCHANGED <<pureVars, disk, problems, processed_files, mainpc, collected,
                   run, poppler, docs>>

\* variant of ShouldPersist with the test inverted
ShouldPersistMatch(is_matching) == is_matching

\* if not is_matching
ShouldPersist(is_matching) == ~is_matching

\* the write of data/problems/{id}.json
Persist(i) ==
    /\ pc[i] = "persist"
    /\ pc' = [pc EXCEPT ![i] = "mark"]
    /\ IF ShouldPersist(content[i][1])
       THEN /\ problems' = problems \cup {WorkList[i].id}
            /\ hist' = H("written", hist.written \cup {WorkList[i].id})
       ELSE UNCHANGED <<problems, hist>>
    /\ UNCHANGED <<pureVars, disk, processed_files, pdf_file, content, future,
                   mainpc, collected, run, poppler, docs>>

\* processed_files.add(pdf_file) and the return
Mark(i) ==
    /\ pc[i] = "mark"
    /\ pc' = [pc EXCEPT ![i] = "done"]
    /\ processed_files' = processed_files \cup {pdf_file[i]}
    /\ future' = [future EXCEPT ![i] = "returned"]
    /\ pdf_file' = [pdf_file EXCEPT ![i] = ""]
    /\ content' = [content EXCEPT ![i] = None]
    /\ hist' = [hist EXCEPT
                   !.doneOK = @ \cup {WorkList[i].file},
                   !.doneByDownload = IF hist.requested[i]
                                      THEN @ \cup {WorkList[i].file} ELSE @]
    /\ UNCHANGED <<pureVars, disk, problems, mainpc, collected, run, poppler, docs>>

\* variant of Caught: future.result() outside any try
CaughtNothing(outcome) == outcome = "returned"

\* except Exception around future.result()
Caught(outcome) == outcome \in {"returned", "Exception"}

\* one round of "for future in as_completed(futures)"
Collect(i) ==
    /\ mainpc = "running"
    /\ i \notin collected
    /\ pc[i] = "done"
    /\ IF Caught(future[i])
       THEN /\ collected' = collected \cup {i}
            /\ UNCHANGED mainpc
       ELSE \* the exception leaves the loop; the with block waits for the pool
            /\ mainpc' = "exiting"
            /\ UNCHANGED collected
    /\ UNCHANGED <<pureVars, disk, problems, processed_files, pc, pdf_file, content,
                   future, run, poppler, docs, hist>>

\* the loop is over and the with block ends
Return ==
    /\ mainpc = "running"
    /\ collected = Items
    /\ mainpc' = "returned"
    /\ UNCHANGED <<pureVars, disk, problems, processed_files, pc, pdf_file, content,
                   future, collected, run, poppler, docs, hist>>

\* shutdown(wait=True) is over and the exception leaves parse_county
Propagate ==
    /\ mainpc = "exiting"
    /\ \A i \in Items : pc[i] = "done"
    /\ mainpc' = "raised"
    /\ UNCHANGED <<pureVars, disk, problems, processed_files, pc, pdf_file, content,
                   future, collected, run, poppler, docs, hist>>

Next ==
    \/ ParseCounty
    \/ ParseCountyFails
    \/ Return
    \/ Propagate
    \/ \E i \in Items :
          \/ Start(i)
          \/ Exists(i)
          \/ Request(i)
          \/ RequestFails(i)
          \/ Open(i)
          \/ Write(i)
          \/ Extract(i)
          \/ Persist(i)
          \/ Mark(i)
          \/ Collect(i)

Spec == Init /\ [][Next]_vars

\* the orchestrator at rest, under the specifications of the pure functions
OrchIdle ==
    /\ disk = {}
    /\ problems = {}
    /\ processed_files = {}
    /\ pc = [i \in Items |-> "idle"]
    /\ pdf_file = [i \in Items |-> ""]
    /\ content = [i \in Items |-> None]
    /\ future = [i \in Items |-> "none"]
    /\ mainpc = "idle"
    /\ collected = {}
    /\ run = 0
    /\ poppler = TRUE
    /\ docs = [f \in Files |-> DocMatch]
    /\ hist = <<>>

-----------------------------------------------------------------------------
(* Inputs of the pure functions *)

Segments ==
    { <<"A", "B", " ">>, <<"B", " ", "C", " ">>, <<"C", "A", " ">>,
      <<" ">>, <<"5">>, <<"-">>, <<"x">> }

RECURSIVE TextsUpTo(_)
TextsUpTo(n) ==
    IF n = 0 THEN {<<>>}
    ELSE LET prev == TextsUpTo(n - 1) IN
         prev \cup {t \o s : t \in prev, s \in Segments}

NameCells == {NoneCell, <<>>, NameAB, <<" ", "A", "B", " ">>, NameBC, NameCA}
VoteCells == {NoneCell, <<>>, <<"5">>, <<"-", "5">>, <<" ", "7", " ">>, <<"x">>,
              <<"1", "_", "0">>}

RowSet ==
    {<<<<"1">>, n, v>> : n \in NameCells, v \in VoteCells}
    \cup {<<<<"1">>, NameAB>>, <<<<"1">>, NameAB, <<"5">>, <<"x">>>>}

HeaderRow == <<<<"x">>, <<"x">>, <<"x">>>>

RECURSIVE RowsUpTo(_)
RowsUpTo(n) ==
    IF n = 0 THEN {<<>>}
    ELSE LET prev == RowsUpTo(n - 1) IN
         prev \cup {t \o <<r>> : t \in prev, r \in RowSet}

Grids == {<<>>} \cup {<<HeaderRow>> \o rows : rows \in RowsUpTo(MaxRows)}

CmpNames == {NameAB, NameBC, NameCA}
CmpRecords == [name : CmpNames, votes : 0..MaxVote]
VoteSets == UNION {[1..n -> CmpRecords] : n \in 0..MaxLen}

-----------------------------------------------------------------------------
(* The parsers applied to every bounded input *)

InitParse ==
    /\ OrchIdle
    /\ text_votes = <<>>
    /\ ocr_votes = <<>>
    /\ parsed = NoParse
    /\ report = NoReport
    /\ phase = "input"
    /\ \/ kind = "table" /\ table_data \in Grids /\ text = <<>>
       \/ kind = "text" /\ text \in TextsUpTo(MaxSegs) /\ table_data = <<>>

ParseTable ==
    /\ kind = "table"
    /\ phase = "input"
    /\ parsed' = parse_table_votes(table_data)
    /\ phase' = "done"
    /\ UNCHANGED <<kind, table_data, text, text_votes, ocr_votes, report, orchVars>>

ParseText ==
    /\ kind = "text"
    /\ phase = "input"
    /\ parsed' = parse_candidate_votes(text)
    /\ phase' = "done"
    /\ UNCHANGED <<kind, table_data, text, text_votes, ocr_votes, report, orchVars>>

NextParse == ParseTable \/ ParseText

SpecParse == InitParse /\ [][NextParse]_vars

-----------------------------------------------------------------------------
(* compare_vote_results applied to every bounded pair of VoteSets *)

InitCompare ==
    /\ OrchIdle
    /\ kind = "votes"
    /\ table_data = <<>>
    /\ text = <<>>
    /\ text_votes \in VoteSets
    /\ ocr_votes \in VoteSets
    /\ parsed = NoParse
    /\ report = NoReport
    /\ phase = "input"

Compare ==
    /\ kind = "votes"
    /\ phase = "input"
    /\ report' = compare_vote_results(text_votes, ocr_votes)
    /\ phase' = "done"
    /\ UNCHANGED <<kind, table_data, text, text_votes, ocr_votes, parsed, orchVars>>

NextCompare == Compare

SpecCompare == InitCompare /\ [][NextCompare]_vars

-----------------------------------------------------------------------------
(* Properties of compare_vote_results, checked under SpecCompare *)

Compared == kind = "votes" /\ phase = "done"

NamesOf(votes) == {votes[i].name : i \in DOMAIN votes}

SameMapping == DictOf(text_votes) = DictOf(ocr_votes)

CoversRegistry(votes) == \A i \in DOMAIN CANDIDATE_NAMES : CANDIDATE_NAMES[i] \in NamesOf(votes)

HasEntry(e) == \E k \in DOMAIN report.differences : report.differences[k] = e

\* C2 as stated: two VoteSets over registry names that map the same names to
\* the same counts, whatever part of the registry they cover, reconcile to
\* all_match = true and no differences.
C2_SameCountsMatch ==
    (/\ Compared
     /\ NamesOf(text_votes) \cup NamesOf(ocr_votes) \subseteq {CANDIDATE_NAMES[i] : i \in DOMAIN CANDIDATE_NAMES}
     /\ SameMapping)
    => (report.all_match /\ report.differences = <<>>)

\* C2 amended: two VoteSets that map the same names to the same counts and
\* hold an entry for every registry name reconcile to all_match = true and no
\* differences; a registry name that both lack gives all_match = false and a
\* difference whose two sides are absent.
C2_SameCountsMatchWhenComplete ==
    Compared =>
      /\ (SameMapping /\ CoversRegistry(text_votes) /\ CoversRegistry(ocr_votes))
            => (report.all_match /\ report.differences = <<>>)
      /\ \A i \in DOMAIN CANDIDATE_NAMES :
            LET n == CANDIDATE_NAMES[i] IN
            (n \notin NamesOf(text_votes) /\ n \notin NamesOf(ocr_votes))
               => /\ ~report.all_match
                  /\ HasEntry([name |-> n, text_votes |-> None, ocr_votes |-> None])

\* C2 witness: two complete VoteSets with the same counts, written in a
\* different order, were reconciled and match.
C2_Witness ==
    /\ Compared
    /\ SameMapping
    /\ CoversRegistry(text_votes)
    /\ text_votes # ocr_votes
    /\ report.all_match

\* the count the mapping built from a VoteSet holds for n: that of the last record
CountOf(votes, n) ==
    LET last == CHOOSE i \in DOMAIN votes :
                    /\ votes[i].name = n
                    /\ \A j \in DOMAIN votes : votes[j].name = n => j <= i
    IN  votes[last].votes

\* C3: a registry name with an entry in exactly one input gives all_match =
\* false and a difference for it whose lacking side is absent and whose other
\* side carries that side's count.
C3_OneSidedReported ==
    Compared =>
      \A i \in DOMAIN CANDIDATE_NAMES :
         LET n == CANDIDATE_NAMES[i] IN
         /\ (n \in NamesOf(text_votes) /\ n \notin NamesOf(ocr_votes))
               => /\ ~report.all_match
                  /\ HasEntry([name |-> n,
                               text_votes |-> <<CountOf(text_votes, n)>>,
                               ocr_votes |-> <<>>])
         /\ (n \notin NamesOf(text_votes) /\ n \in NamesOf(ocr_votes))
               => /\ ~report.all_match
                  /\ HasEntry([name |-> n,
                               text_votes |-> <<>>,
                               ocr_votes |-> <<CountOf(ocr_votes, n)>>])

\* C3 witness: a registry name with count 0 on the table side only, the other
\* registry name equal on both sides, was reconciled.
C3_Witness ==
    /\ Compared
    /\ NameAB \in NamesOf(text_votes) /\ NameAB \notin NamesOf(ocr_votes)
    /\ CountOf(text_votes, NameAB) = 0
    /\ NameBC \in NamesOf(text_votes) /\ NameBC \in NamesOf(ocr_votes)
    /\ ~report.all_match

\* C8 as stated: the second pass adds a difference only for a name outside the
\* registry, so no name occurs in two entries of differences.
C8_NoNameTwice ==
    Compared =>
      /\ \A k \in DOMAIN report.differences :
            (k > Len(FirstPass(DictOf(text_votes), DictOf(ocr_votes), 1)))
               => ~InRegistry(report.differences[k].name)
      /\ \A j, k \in DOMAIN report.differences :
            j # k => report.differences[j].name # report.differences[k].name

-----------------------------------------------------------------------------
(* Properties of the parsers, checked under SpecParse *)

Parsed == kind \in {"table", "text"} /\ phase = "done"

C7_VotesNonNegative ==
    Parsed => \A k \in DOMAIN parsed.votes : parsed.votes[k].votes >= 0

-----------------------------------------------------------------------------
(* Properties of the orchestrator, checked under Spec *)

FileOf(i) == WorkList[i].file

\* C1 as stated: a process_file call that starts after a call for the same
\* file name has completed without error in the same run returns at the
\* registry check.
C1_LaterCallSkipped ==
    \A i \in Items : hist.late[i] => hist.outcome[i] = "skipped"

\* Support for C1: the claim does hold of the calls that start after a call
\* that completed without downloading (the file was on disk when it looked).
C1_SkippedAfterUndownloaded ==
    \A i \in Items :
       (hist.late[i] /\ FileOf(i) \notin hist.doneByDownload)
          => hist.outcome[i] = "skipped"

\* C4: an item's record is written to the problems area exactly when its
\* extraction and reconciliation completed with all_match = false.
C4_ProblemsIffMismatch ==
    /\ hist.written \subseteq problems
    /\ \A i \in Items :
          /\ WorkList[i].id \in hist.written => hist.outcome[i] = "mismatch"
          /\ (pc[i] = "done" /\ hist.outcome[i] = "mismatch")
                => WorkList[i].id \in hist.written

\* C4 witness: in one run an item's download failed, another's report
\* mismatched and was written, and both calls are over.
C4_Witness ==
    \E i, j \in Items :
       /\ pc[i] = "done" /\ hist.outcome[i] = "dlerror"
       /\ pc[j] = "done" /\ hist.outcome[j] = "mismatch"
       /\ problems = {WorkList[j].id}

Ended == hist.submitted /\ mainpc \in {"returned", "raised"}

\* C5 as stated: whatever fails in the items, parse_county does not raise and
\* ends only after process_file has run for every item.
C5_NeverRaises ==
    Ended => (mainpc = "returned" /\ \A i \in Items : pc[i] = "done")

\* C5 amended: parse_county ends only after process_file has run for every
\* item; it returns whenever the items fail with ordinary exceptions, and it
\* raises only when an item's extraction exited for the missing rendering tool.
C5_RaisesOnlyOnExit ==
    Ended =>
      /\ \A i \in Items : pc[i] = "done" /\ hist.outcome[i] # "none"
      /\ poppler => mainpc = "returned"
      /\ mainpc = "raised" => \E i \in Items : future[i] = "SystemExit"

\* C5 witness: a run returned in which one download raised and one
\* extraction raised.
C5_Witness ==
    /\ Ended
    /\ mainpc = "returned"
    /\ \E i, j \in Items : hist.outcome[i] = "dlerror" /\ hist.outcome[j] = "error"

\* C9 as stated: an item is skipped as already processed only if extraction
\* and reconciliation completed for its file before.
C9_SkippedOnlyIfExtracted ==
    \A i \in Items : hist.outcome[i] = "skipped" => FileOf(i) \in hist.extractedOK

\* C10: an item downloads its file only if the file was absent from the
\* registry when it looked there and absent from the disk when it looked
\* there; nothing else stands between two items and two downloads.
C10_DownloadsWhenUnseen ==
    \A i \in Items :
       hist.requested[i] => (~hist.sawInRegistry[i] /\ ~hist.sawOnDisk[i])

\* C10 witness: two items of the same file name, absent from disk and
\* registry at the start of the run, have both downloaded it and neither has
\* written it yet.
C10_Witness ==
    \E i, j \in Items :
       /\ i # j
       /\ FileOf(i) = FileOf(j)
       /\ FileOf(i) \notin hist.diskAtStart
       /\ pc[i] = "open" /\ pc[j] = "open"
       /\ hist.requested[i] /\ hist.requested[j]
       /\ FileOf(i) \notin disk

====
